---- MODULE Spec2Model ----
(***************************************************************************)
(* The ownership-polymorphic wrappers of libafl_bolts/src/ownedref.rs:     *)
(* OwnedRef, OwnedRefMut, OwnedSlice, OwnedMutSlice, OwnedPtr, OwnedMutPtr *)
(* Externally owned memory (what raw pointers and borrowed references      *)
(* point into) is the array mem; an owned Box or Vec is held in the        *)
(* wrapper itself.  One wrapper is constructed and then operated on.       *)
(***************************************************************************)
EXTENDS Integers, Sequences, FiniteSets, TLC

\* Bounds of the model.
MemSize == 2    \* number of cells of externally owned memory
MaxVal == 1     \* element values are 0..MaxVal
MaxLen == 2     \* longest Vec handed to a From<Vec<T>> constructor

\* The null pointer (ptr.is_null()).
Null == 0

Addr == 1..MemSize
Val == 0..MaxVal

\* All sequences over S of length at most n.
SeqUpTo(S, n) == UNION {[1..k -> S] : k \in 0..n}

VARIABLES
    mem,        \* externally owned memory: Addr -> Val
    w,          \* the wrapper (NoWrapper before construction or after a panic)
    panicked,   \* the last operation aborted (panic!, assert!, unwrap on None)
    op,         \* name of the last operation
    arg,        \* its arguments
    old,        \* self on entry to the last operation
    ret,        \* its return value, when it is not a wrapper
    copied,     \* the last operation cloned the contents (to_vec / clone)
    wire,       \* the bytes the last operation wrote, if it was serialize
    orig,       \* the contents the wrapper had when it was constructed, kept
                \* until the first store
    written     \* the wrapper's contents were stored to since

vars == <<mem, w, panicked, op, arg, old, ret, copied, wire, orig, written>>

(***************************************************************************)
(* Values.  A wrapper is a record: kind is the wrapper type, tag the       *)
(* active enum variant, ptr/len the pointer and length of a RefRaw, Ref or *)
(* Ptr variant (a reference is an address that is known to be valid), data *)
(* the contents of an Owned Box (one element) or Vec.                      *)
(***************************************************************************)
Mk(k, t, p, l, d) == [kind |-> k, tag |-> t, ptr |-> p, len |-> l, data |-> d]

NoWrapper == Mk("None", "None", Null, 0, <<>>)
\* The result of an operation that panicked.
Panic == Mk("Panic", "None", Null, 0, <<>>)
\* The Err result of a failed deserialize.
DeErr == Mk("Err", "None", Null, 0, <<>>)

SingleKinds == {"OwnedRef", "OwnedRefMut"}
SliceKinds == {"OwnedSlice", "OwnedMutSlice"}
PtrKinds == {"OwnedPtr", "OwnedMutPtr"}
Kinds == SingleKinds \cup SliceKinds \cup PtrKinds

\* The wrapper types that hold what k holds: one value, or a sequence.
SameShape(k) == IF k \in SliceKinds THEN SliceKinds ELSE SingleKinds \cup PtrKinds

\* The enum variants.
RefRaw(k, p, l) == Mk(k, "RefRaw", p, l, <<>>)
Ref(k, p, l) == Mk(k, "Ref", p, l, <<>>)
Owned(k, d) == Mk(k, "Owned", Null, 0, d)
Ptr(k, p) == Mk(k, "Ptr", p, 1, <<>>)

\* Option<usize>.
None == <<>>
Some(n) == <<n>>

\* The outcome of a dereference: the elements read, or an abort.
Ok(s) == [ok |-> TRUE, s |-> s]
Fail == [ok |-> FALSE, s |-> <<>>]

\* The elements of m at p .. p+l-1.
Cells(m, p, l) == [i \in 1..l |-> m[p + i - 1]]

\* A reference: always valid.
deref_ref(m, p, l) == Ok(Cells(m, p, l))

\* ptr.as_ref().unwrap(): None, and so a panic, for the null pointer.
as_ref_unwrap(m, p) == IF p = Null THEN Fail ELSE Ok(<<m[p]>>)

\* What slice::from_raw_parts(null, len) can do: it is undefined behaviour.
\* The read of len > 0 elements at address 0 faults; for len = 0 nothing is
\* read and the build either yields the empty slice or aborts on the
\* precondition check of a debug build.
UBNull(l) == {Fail} \cup (IF l = 0 THEN {Ok(<<>>)} ELSE {})

\* slice::from_raw_parts(ptr, len); ub is the outcome chosen for a null ptr.
from_raw_parts(m, p, l, ub) == IF p = Null THEN ub ELSE Ok(Cells(m, p, l))


(***************************************************************************)
(* Serialization.  The encoder is the schema-driven one the wrappers are   *)
(* shipped with: a value of T is written as itself, a sequence as its      *)
(* length followed by its elements, a struct as its fields in order with   *)
(* no framing.                                                             *)
(***************************************************************************)
\* T::serialize for the single element of s.
ser_value(s) == <<s[1]>>
\* <[T] as Serialize>::serialize.
ser_seq(s) == <<Len(s)>> \o s
\* serialize_struct with the one field `inner`.
ser_struct(inner) == inner
\* Box<T>::deserialize: exactly one value.
de_box(b) == IF Len(b) = 1 THEN Ok(<<b[1]>>) ELSE Fail
\* Vec<T>::deserialize: the length, then that many elements.
de_vec(b) == IF Len(b) >= 1 /\ Len(b) = 1 + b[1] THEN Ok(SubSeq(b, 2, Len(b))) ELSE Fail
\* deserialize_struct with the one field `inner`.
de_struct(b) == b

\* A wrapper returned by a consuming operation, and whether making it
\* cloned the contents.
R(x, c) == [w |-> x, copied |-> c]

(***************************************************************************)
(* Truncate for &[T] and &mut [T].                                         *)
(***************************************************************************)
\* *self = &self[..len]: the index panics beyond the slice.
Truncate_slice(x, n) == IF n <= x.len THEN [x EXCEPT !.len = n] ELSE Panic
\* Keeping the last n elements instead of the first n.
Truncate_mut_slice_tail(x, n) == [x EXCEPT !.ptr = x.ptr + x.len - n, !.len = n]
\* get_unchecked_mut(..len): no check (callers check the bound first).
Truncate_mut_slice(x, n) == [x EXCEPT !.len = n]
\* Vec::truncate: keeps the first n elements, no effect when n >= len.
Vec_truncate(d, n) == IF n < Len(d) THEN SubSeq(d, 1, n) ELSE d

(***************************************************************************)
(* OwnedRef                                                                *)
(***************************************************************************)
OwnedRef_from_ptr(p) == IF p = Null THEN Panic ELSE RefRaw("OwnedRef", p, 1)

\* o is what shmem.as_mut_ptr_of() returned: None when the map is too small.
OwnedRef_from_shmem(o) == IF o = None THEN Panic ELSE OwnedRef_from_ptr(o[1])

OwnedRef_owned(v) == Owned("OwnedRef", <<v>>)

\* OwnedRef::Ref(&x), the public variant.
OwnedRef_Ref(p) == Ref("OwnedRef", p, 1)

OwnedRef_is_raw(x) == x.tag = "Ref"

\* The inherent into_owned(self) -> Option<Box<T>>: the Box of an Owned
\* wrapper, None for the other variants.
OwnedRef_inherent_into_owned(x) ==
    CASE x.tag = "Owned" -> Some(x.data)
      [] OTHER -> None

OwnedRef_as_ref(x, m) ==
    CASE x.tag = "RefRaw" -> as_ref_unwrap(m, x.ptr)
      [] x.tag = "Ref" -> deref_ref(m, x.ptr, 1)
      [] x.tag = "Owned" -> Ok(x.data)

OwnedRef_serialize(x, m) ==
    CASE x.tag = "RefRaw" ->
            LET r == as_ref_unwrap(m, x.ptr) IN IF r.ok THEN Ok(ser_value(r.s)) ELSE Fail
      [] x.tag = "Ref" -> Ok(ser_value(deref_ref(m, x.ptr, 1).s))
      [] x.tag = "Owned" -> Ok(ser_value(x.data))

OwnedRef_deserialize(b) ==
    LET r == de_box(b) IN IF r.ok THEN Owned("OwnedRef", r.s) ELSE DeErr

OwnedRef_is_owned(x) ==
    CASE x.tag \in {"RefRaw", "Ref"} -> FALSE
      [] x.tag = "Owned" -> TRUE

\* The borrowed arm returned as it is (the clone forgotten).
OwnedRef_into_owned_keeps_ref(x, m) ==
    CASE x.tag = "RefRaw" ->
            LET r == as_ref_unwrap(m, x.ptr)
            IN IF r.ok THEN R(Owned("OwnedRef", r.s), TRUE) ELSE R(Panic, FALSE)
      [] x.tag = "Ref" -> R(x, FALSE)
      [] x.tag = "Owned" -> R(Owned("OwnedRef", x.data), FALSE)

OwnedRef_into_owned(x, m) ==
    CASE x.tag = "RefRaw" ->
            LET r == as_ref_unwrap(m, x.ptr)
            IN IF r.ok THEN R(Owned("OwnedRef", r.s), TRUE) ELSE R(Panic, FALSE)
      [] x.tag = "Ref" -> R(Owned("OwnedRef", deref_ref(m, x.ptr, 1).s), TRUE)
      [] x.tag = "Owned" -> R(Owned("OwnedRef", x.data), FALSE)

(***************************************************************************)
(* OwnedRefMut                                                             *)
(***************************************************************************)
\* The constructor without its assertion.
OwnedRefMut_from_mut_ptr_unchecked(p) == RefRaw("OwnedRefMut", p, 1)

OwnedRefMut_from_mut_ptr(p) == IF p = Null THEN Panic ELSE RefRaw("OwnedRefMut", p, 1)

OwnedRefMut_from_shmem(o) == IF o = None THEN Panic ELSE OwnedRefMut_from_mut_ptr(o[1])

OwnedRefMut_owned(v) == Owned("OwnedRefMut", <<v>>)

\* OwnedRefMut::Ref(&mut x), the public variant.
OwnedRefMut_Ref(p) == Ref("OwnedRefMut", p, 1)

OwnedRefMut_as_ref(x, m) ==
    CASE x.tag = "RefRaw" -> as_ref_unwrap(m, x.ptr)
      [] x.tag = "Ref" -> deref_ref(m, x.ptr, 1)
      [] x.tag = "Owned" -> Ok(x.data)

\* *self.as_mut() = v: the wrapper and the memory after the store.
OwnedRefMut_as_mut(x, m, v) ==
    CASE x.tag = "RefRaw" ->
            IF x.ptr = Null THEN [w |-> Panic, mem |-> m]
            ELSE [w |-> x, mem |-> [m EXCEPT ![x.ptr] = v]]
      [] x.tag = "Ref" -> [w |-> x, mem |-> [m EXCEPT ![x.ptr] = v]]
      [] x.tag = "Owned" -> [w |-> [x EXCEPT !.data = <<v>>], mem |-> m]

\* The owned arm written as a sequence of one element, not as the value.
OwnedRefMut_serialize_owned_differs(x, m) ==
    CASE x.tag = "Ref" -> Ok(ser_value(deref_ref(m, x.ptr, 1).s))
      [] x.tag = "RefRaw" ->
            LET r == as_ref_unwrap(m, x.ptr) IN IF r.ok THEN Ok(ser_value(r.s)) ELSE Fail
      [] x.tag = "Owned" -> Ok(ser_seq(x.data))

OwnedRefMut_serialize(x, m) ==
    CASE x.tag = "Ref" -> Ok(ser_value(deref_ref(m, x.ptr, 1).s))
      [] x.tag = "RefRaw" ->
            LET r == as_ref_unwrap(m, x.ptr) IN IF r.ok THEN Ok(ser_value(r.s)) ELSE Fail
      [] x.tag = "Owned" -> Ok(ser_value(x.data))

OwnedRefMut_deserialize(b) ==
    LET r == de_box(b) IN IF r.ok THEN Owned("OwnedRefMut", r.s) ELSE DeErr

OwnedRefMut_is_owned(x) ==
    CASE x.tag \in {"RefRaw", "Ref"} -> FALSE
      [] x.tag = "Owned" -> TRUE

OwnedRefMut_into_owned(x, m) ==
    CASE x.tag = "RefRaw" ->
            LET r == as_ref_unwrap(m, x.ptr)
            IN IF r.ok THEN R(Owned("OwnedRefMut", r.s), TRUE) ELSE R(Panic, FALSE)
      [] x.tag = "Ref" -> R(Owned("OwnedRefMut", deref_ref(m, x.ptr, 1).s), TRUE)
      [] x.tag = "Owned" -> R(Owned("OwnedRefMut", x.data), FALSE)

(***************************************************************************)
(* OwnedSlice (struct around OwnedSliceInner)                              *)
(***************************************************************************)
\* The constructor with the null assertion of the single-value constructors.
OwnedSlice_from_raw_parts_checked(p, l) == IF p = Null THEN Panic ELSE RefRaw("OwnedSlice", p, l)

OwnedSlice_from_raw_parts(p, l) == RefRaw("OwnedSlice", p, l)

\* From<Vec<T>>.
OwnedSlice_from_vec(d) == Owned("OwnedSlice", d)

\* From<&'a Vec<T>> and From<&'a [T]>.
OwnedSlice_from_slice(p, l) == Ref("OwnedSlice", p, l)

\* The new wrapper and the Option<usize> returned.
\* Returning the new length where the old one is due.
OwnedSlice_truncate_newlen(x, new_len) ==
    CASE x.tag = "RefRaw" ->
            LET tmp == x.len
            IN IF new_len <= tmp THEN [w |-> [x EXCEPT !.len = new_len], ret |-> Some(new_len)]
               ELSE [w |-> x, ret |-> None]
      [] x.tag = "Ref" ->
            LET tmp == x.len
            IN IF new_len <= tmp THEN [w |-> Truncate_slice(x, new_len), ret |-> Some(new_len)]
               ELSE [w |-> x, ret |-> None]
      [] x.tag = "Owned" ->
            LET tmp == Len(x.data)
            IN IF new_len <= tmp
               THEN [w |-> [x EXCEPT !.data = Vec_truncate(x.data, new_len)], ret |-> Some(new_len)]
               ELSE [w |-> x, ret |-> None]

OwnedSlice_truncate(x, new_len) ==
    CASE x.tag = "RefRaw" ->
            LET tmp == x.len
            IN IF new_len <= tmp THEN [w |-> [x EXCEPT !.len = new_len], ret |-> Some(tmp)]
               ELSE [w |-> x, ret |-> None]
      [] x.tag = "Ref" ->
            LET tmp == x.len
            IN IF new_len <= tmp THEN [w |-> Truncate_slice(x, new_len), ret |-> Some(tmp)]
               ELSE [w |-> x, ret |-> None]
      [] x.tag = "Owned" ->
            LET tmp == Len(x.data)
            IN IF new_len <= tmp
               THEN [w |-> [x EXCEPT !.data = Vec_truncate(x.data, new_len)], ret |-> Some(tmp)]
               ELSE [w |-> x, ret |-> None]

OwnedSlice_deref(x, m, ub) ==
    CASE x.tag = "Ref" -> deref_ref(m, x.ptr, x.len)
      [] x.tag = "RefRaw" -> from_raw_parts(m, x.ptr, x.len, ub)
      [] x.tag = "Owned" -> Ok(x.data)

\* The result of slice(): the new wrapper and what its reference points into,
\* the memory self points into ("mem") or the buffer self owns ("vec", whose
\* first element has address 1).
Sub(x, b) == [ok |-> TRUE, sub |-> x, base |-> b]
NoSub == [ok |-> FALSE, sub |-> NoWrapper, base |-> "none"]

\* Not advancing the reference by the start of the range.
OwnedSlice_slice_from_start(x, m, lo, hi, ub) ==
    LET r == OwnedSlice_deref(x, m, ub)
    IN IF ~r.ok THEN NoSub
       ELSE IF lo > hi \/ hi > Len(r.s) THEN NoSub
       ELSE IF x.tag = "Owned" THEN Sub(Ref("OwnedSlice", 1, hi - lo), "vec")
       ELSE Sub(Ref("OwnedSlice", x.ptr, hi - lo), "mem")

\* slice(lo..hi): Ref(&self[lo..hi]); the index panics when the range is not
\* inside the slice self dereferences to.
OwnedSlice_slice(x, m, lo, hi, ub) ==
    LET r == OwnedSlice_deref(x, m, ub)
    IN IF ~r.ok THEN NoSub
       ELSE IF lo > hi \/ hi > Len(r.s) THEN NoSub
       ELSE IF x.tag = "Owned" THEN Sub(Ref("OwnedSlice", 1 + lo, hi - lo), "vec")
       ELSE Sub(Ref("OwnedSlice", x.ptr + lo, hi - lo), "mem")

\* iter() / IntoIterator for &OwnedSlice: self.as_slice().iter(), the elements
\* the iterator yields.
OwnedSlice_iter(x, m, ub) == OwnedSlice_deref(x, m, ub)

\* The raw arm losing the last element (an off-by-one in the length).
OwnedSliceInner_serialize_short(x, m, ub) ==
    CASE x.tag = "RefRaw" ->
            LET r == from_raw_parts(m, x.ptr, x.len, ub)
            IN IF r.ok THEN Ok(ser_seq(SubSeq(r.s, 1, Len(r.s) - 1))) ELSE Fail
      [] x.tag = "Ref" -> Ok(ser_seq(deref_ref(m, x.ptr, x.len).s))
      [] x.tag = "Owned" -> Ok(ser_seq(x.data))

OwnedSliceInner_serialize(x, m, ub) ==
    CASE x.tag = "RefRaw" ->
            LET r == from_raw_parts(m, x.ptr, x.len, ub) IN IF r.ok THEN Ok(ser_seq(r.s)) ELSE Fail
      [] x.tag = "Ref" -> Ok(ser_seq(deref_ref(m, x.ptr, x.len).s))
      [] x.tag = "Owned" -> Ok(ser_seq(x.data))

OwnedSliceInner_deserialize(b) ==
    LET r == de_vec(b) IN IF r.ok THEN Owned("OwnedSlice", r.s) ELSE DeErr

\* #[derive(Serialize, Deserialize)] on struct OwnedSlice { inner }.
OwnedSlice_serialize(x, m, ub) ==
    LET r == OwnedSliceInner_serialize(x, m, ub) IN IF r.ok THEN Ok(ser_struct(r.s)) ELSE Fail

OwnedSlice_deserialize(b) == OwnedSliceInner_deserialize(de_struct(b))

OwnedSlice_is_owned(x) ==
    CASE x.tag \in {"RefRaw", "Ref"} -> FALSE
      [] x.tag = "Owned" -> TRUE

\* The borrowed arm returned as it is (the to_vec forgotten).
OwnedSlice_into_owned_keeps_ref(x, m, ub) ==
    CASE x.tag = "RefRaw" ->
            LET r == from_raw_parts(m, x.ptr, x.len, ub)
            IN IF r.ok THEN R(Owned("OwnedSlice", r.s), TRUE) ELSE R(Panic, FALSE)
      [] x.tag = "Ref" -> R(x, FALSE)
      [] x.tag = "Owned" -> R(Owned("OwnedSlice", x.data), FALSE)

OwnedSlice_into_owned(x, m, ub) ==
    CASE x.tag = "RefRaw" ->
            LET r == from_raw_parts(m, x.ptr, x.len, ub)
            IN IF r.ok THEN R(Owned("OwnedSlice", r.s), TRUE) ELSE R(Panic, FALSE)
      [] x.tag = "Ref" -> R(Owned("OwnedSlice", deref_ref(m, x.ptr, x.len).s), TRUE)
      [] x.tag = "Owned" -> R(Owned("OwnedSlice", x.data), FALSE)

\* The two ways a conversion to Vec can abort: the panic of the conversion
\* itself, and an abort inside into_owned (a raw pointer that is not valid).
CouldNotOwn == "Could not own slice!"
InvalidPointer == "invalid pointer"
IsVec(d) == [ok |-> TRUE, s |-> d, msg |-> ""]
Abort(msg) == [ok |-> FALSE, s |-> <<>>, msg |-> msg]

\* From<OwnedSlice<'a, T>> for Vec<T>.
Vec_from_OwnedSlice(x, m, ub) ==
    LET slice == OwnedSlice_into_owned(x, m, ub)
    IN IF slice.w = Panic THEN Abort(InvalidPointer)
       ELSE IF slice.w.tag = "Owned" THEN IsVec(slice.w.data)
       ELSE Abort(CouldNotOwn)

\* From<OwnedMutSlice<'a, T>> for OwnedSlice<'a, T>.
\* The borrowed arm turned into a raw pointer (r.as_ptr(), r.len()).
OwnedSlice_from_mut_slice_raw(x) ==
    CASE x.tag = "RefRaw" -> R(RefRaw("OwnedSlice", x.ptr, x.len), FALSE)
      [] x.tag = "Ref" -> R(RefRaw("OwnedSlice", x.ptr, x.len), FALSE)
      [] x.tag = "Owned" -> R(Owned("OwnedSlice", x.data), FALSE)

OwnedSlice_from_mut_slice(x) ==
    CASE x.tag = "RefRaw" -> R(RefRaw("OwnedSlice", x.ptr, x.len), FALSE)
      [] x.tag = "Ref" -> R(Ref("OwnedSlice", x.ptr, x.len), FALSE)
      [] x.tag = "Owned" -> R(Owned("OwnedSlice", x.data), FALSE)

(***************************************************************************)
(* OwnedMutSlice (struct around OwnedMutSliceInner)                        *)
(***************************************************************************)
\* The collapse only when both hold (&& for ||).
OwnedMutSlice_from_raw_parts_mut_and(p, l) ==
    IF p = Null /\ l = 0 THEN Owned("OwnedMutSlice", <<>>)
    ELSE RefRaw("OwnedMutSlice", p, l)

OwnedMutSlice_from_raw_parts_mut(p, l) ==
    IF p = Null \/ l = 0 THEN Owned("OwnedMutSlice", <<>>)
    ELSE RefRaw("OwnedMutSlice", p, l)

\* From<Vec<T>>.
OwnedMutSlice_from_vec(d) == Owned("OwnedMutSlice", d)

\* From<&'a mut Vec<T>>, From<&'a mut [T]> and From<&'a mut &'a mut [T]>.
OwnedMutSlice_from_mut_slice(p, l) == Ref("OwnedMutSlice", p, l)

\* Dropping the pointer for an empty owned buffer when nothing is left.
OwnedMutSlice_truncate_frees(x, new_len) ==
    CASE x.tag = "RefRaw" ->
            LET tmp == x.len
            IN IF new_len = 0 THEN [w |-> Owned("OwnedMutSlice", <<>>), ret |-> Some(tmp)]
               ELSE IF new_len <= tmp THEN [w |-> [x EXCEPT !.len = new_len], ret |-> Some(tmp)]
               ELSE [w |-> x, ret |-> None]
      [] x.tag = "Ref" ->
            LET tmp == x.len
            IN IF new_len <= tmp THEN [w |-> Truncate_mut_slice(x, new_len), ret |-> Some(tmp)]
               ELSE [w |-> x, ret |-> None]
      [] x.tag = "Owned" ->
            LET tmp == Len(x.data)
            IN IF new_len <= tmp
               THEN [w |-> [x EXCEPT !.data = Vec_truncate(x.data, new_len)], ret |-> Some(tmp)]
               ELSE [w |-> x, ret |-> None]

OwnedMutSlice_truncate(x, new_len) ==
    CASE x.tag = "RefRaw" ->
            LET tmp == x.len
            IN IF new_len <= tmp THEN [w |-> [x EXCEPT !.len = new_len], ret |-> Some(tmp)]
               ELSE [w |-> x, ret |-> None]
      [] x.tag = "Ref" ->
            LET tmp == x.len
            IN IF new_len <= tmp THEN [w |-> Truncate_mut_slice(x, new_len), ret |-> Some(tmp)]
               ELSE [w |-> x, ret |-> None]
      [] x.tag = "Owned" ->
            LET tmp == Len(x.data)
            IN IF new_len <= tmp
               THEN [w |-> [x EXCEPT !.data = Vec_truncate(x.data, new_len)], ret |-> Some(tmp)]
               ELSE [w |-> x, ret |-> None]

OwnedMutSlice_deref(x, m, ub) ==
    CASE x.tag = "RefRaw" -> from_raw_parts(m, x.ptr, x.len, ub)
      [] x.tag = "Ref" -> deref_ref(m, x.ptr, x.len)
      [] x.tag = "Owned" -> Ok(x.data)

\* iter() / IntoIterator for &OwnedMutSlice: self.as_slice().iter().
OwnedMutSlice_iter(x, m, ub) == OwnedMutSlice_deref(x, m, ub)

\* self.deref_mut()[i] = v (i counted from 1, within the slice): the wrapper
\* and the memory after the store.
OwnedMutSlice_deref_mut(x, m, i, v) ==
    CASE x.tag = "RefRaw" ->
            IF x.ptr = Null THEN [w |-> Panic, mem |-> m]
            ELSE [w |-> x, mem |-> [m EXCEPT ![x.ptr + i - 1] = v]]
      [] x.tag = "Ref" -> [w |-> x, mem |-> [m EXCEPT ![x.ptr + i - 1] = v]]
      [] x.tag = "Owned" -> [w |-> [x EXCEPT !.data[i] = v], mem |-> m]

OwnedMutSliceInner_serialize(x, m, ub) ==
    CASE x.tag = "RefRaw" ->
            LET r == from_raw_parts(m, x.ptr, x.len, ub) IN IF r.ok THEN Ok(ser_seq(r.s)) ELSE Fail
      [] x.tag = "Ref" -> Ok(ser_seq(deref_ref(m, x.ptr, x.len).s))
      [] x.tag = "Owned" -> Ok(ser_seq(x.data))

OwnedMutSliceInner_deserialize(b) ==
    LET r == de_vec(b) IN IF r.ok THEN Owned("OwnedMutSlice", r.s) ELSE DeErr

\* #[derive(Serialize, Deserialize)] on struct OwnedMutSlice { inner }.
OwnedMutSlice_serialize(x, m, ub) ==
    LET r == OwnedMutSliceInner_serialize(x, m, ub) IN IF r.ok THEN Ok(ser_struct(r.s)) ELSE Fail

OwnedMutSlice_deserialize(b) == OwnedMutSliceInner_deserialize(de_struct(b))

OwnedMutSlice_is_owned(x) ==
    CASE x.tag \in {"RefRaw", "Ref"} -> FALSE
      [] x.tag = "Owned" -> TRUE

\* Owning only what is behind a raw pointer: a borrowed slice stays borrowed.
OwnedMutSlice_into_owned_keeps_ref(x, m, ub) ==
    LET vec == CASE x.tag = "RefRaw" -> from_raw_parts(m, x.ptr, x.len, ub)
                 [] x.tag = "Ref" -> deref_ref(m, x.ptr, x.len)
                 [] x.tag = "Owned" -> Ok(x.data)
    IN IF x.tag = "Ref" THEN R(x, FALSE)
       ELSE IF vec.ok THEN R(Owned("OwnedMutSlice", vec.s), x.tag # "Owned")
       ELSE R(Panic, FALSE)

OwnedMutSlice_into_owned(x, m, ub) ==
    LET vec == CASE x.tag = "RefRaw" -> from_raw_parts(m, x.ptr, x.len, ub)
                 [] x.tag = "Ref" -> deref_ref(m, x.ptr, x.len)
                 [] x.tag = "Owned" -> Ok(x.data)
    IN IF vec.ok THEN R(Owned("OwnedMutSlice", vec.s), x.tag # "Owned") ELSE R(Panic, FALSE)

\* From<OwnedMutSlice<'a, T>> for Vec<T>.
Vec_from_OwnedMutSlice(x, m, ub) ==
    LET slice == OwnedMutSlice_into_owned(x, m, ub)
    IN IF slice.w = Panic THEN Abort(InvalidPointer)
       ELSE IF slice.w.tag = "Owned" THEN IsVec(slice.w.data)
       ELSE Abort(CouldNotOwn)

(***************************************************************************)
(* OwnedPtr                                                                *)
(***************************************************************************)
OwnedPtr_from_raw(p) == Ptr("OwnedPtr", p)

\* OwnedPtr::Owned(Box::new(v)), the public variant.
OwnedPtr_Owned(v) == Owned("OwnedPtr", <<v>>)

OwnedPtr_as_ref(x, m) ==
    CASE x.tag = "Ptr" -> as_ref_unwrap(m, x.ptr)
      [] x.tag = "Owned" -> Ok(x.data)

OwnedPtr_serialize(x, m) ==
    LET r == OwnedPtr_as_ref(x, m) IN IF r.ok THEN Ok(ser_value(r.s)) ELSE Fail

OwnedPtr_deserialize(b) ==
    LET r == de_box(b) IN IF r.ok THEN Owned("OwnedPtr", r.s) ELSE DeErr

OwnedPtr_is_owned(x) ==
    CASE x.tag = "Ptr" -> FALSE
      [] x.tag = "Owned" -> TRUE

OwnedPtr_into_owned(x, m) ==
    CASE x.tag = "Ptr" ->
            LET r == as_ref_unwrap(m, x.ptr)
            IN IF r.ok THEN R(Owned("OwnedPtr", r.s), TRUE) ELSE R(Panic, FALSE)
      [] x.tag = "Owned" -> R(Owned("OwnedPtr", x.data), FALSE)

(***************************************************************************)
(* OwnedMutPtr                                                             *)
(***************************************************************************)
OwnedMutPtr_from_raw_mut(p) == Ptr("OwnedMutPtr", p)

\* OwnedMutPtr::Owned(Box::new(v)), the public variant.
OwnedMutPtr_Owned(v) == Owned("OwnedMutPtr", <<v>>)

OwnedMutPtr_as_ref(x, m) ==
    CASE x.tag = "Ptr" -> as_ref_unwrap(m, x.ptr)
      [] x.tag = "Owned" -> Ok(x.data)

\* *self.as_mut() = v: the wrapper and the memory after the store.
OwnedMutPtr_as_mut(x, m, v) ==
    CASE x.tag = "Ptr" ->
            IF x.ptr = Null THEN [w |-> Panic, mem |-> m]
            ELSE [w |-> x, mem |-> [m EXCEPT ![x.ptr] = v]]
      [] x.tag = "Owned" -> [w |-> [x EXCEPT !.data = <<v>>], mem |-> m]

OwnedMutPtr_serialize(x, m) ==
    LET r == OwnedMutPtr_as_ref(x, m) IN IF r.ok THEN Ok(ser_value(r.s)) ELSE Fail

OwnedMutPtr_deserialize(b) ==
    LET r == de_box(b) IN IF r.ok THEN Owned("OwnedMutPtr", r.s) ELSE DeErr

\* The arms swapped.
OwnedMutPtr_is_owned_swapped(x) ==
    CASE x.tag = "Ptr" -> TRUE
      [] x.tag = "Owned" -> FALSE

OwnedMutPtr_is_owned(x) ==
    CASE x.tag = "Ptr" -> FALSE
      [] x.tag = "Owned" -> TRUE

OwnedMutPtr_into_owned(x, m) ==
    CASE x.tag = "Ptr" ->
            LET r == as_ref_unwrap(m, x.ptr)
            IN IF r.ok THEN R(Owned("OwnedMutPtr", r.s), TRUE) ELSE R(Panic, FALSE)
      [] x.tag = "Owned" -> R(Owned("OwnedMutPtr", x.data), FALSE)

(***************************************************************************)
(* Dispatch on the wrapper type (the IntoOwned, Serialize, Deserialize and *)
(* Deref/AsRef implementations of the six types).                          *)
(***************************************************************************)
IsOwned(x) ==
    CASE x.kind = "OwnedRef" -> OwnedRef_is_owned(x)
      [] x.kind = "OwnedRefMut" -> OwnedRefMut_is_owned(x)
      [] x.kind = "OwnedSlice" -> OwnedSlice_is_owned(x)
      [] x.kind = "OwnedMutSlice" -> OwnedMutSlice_is_owned(x)
      [] x.kind = "OwnedPtr" -> OwnedPtr_is_owned(x)
      [] x.kind = "OwnedMutPtr" -> OwnedMutPtr_is_owned(x)

IntoOwned(x, m, ub) ==
    CASE x.kind = "OwnedRef" -> OwnedRef_into_owned(x, m)
      [] x.kind = "OwnedRefMut" -> OwnedRefMut_into_owned(x, m)
      [] x.kind = "OwnedSlice" -> OwnedSlice_into_owned(x, m, ub)
      [] x.kind = "OwnedMutSlice" -> OwnedMutSlice_into_owned(x, m, ub)
      [] x.kind = "OwnedPtr" -> OwnedPtr_into_owned(x, m)
      [] x.kind = "OwnedMutPtr" -> OwnedMutPtr_into_owned(x, m)

Serialize(x, m, ub) ==
    CASE x.kind = "OwnedRef" -> OwnedRef_serialize(x, m)
      [] x.kind = "OwnedRefMut" -> OwnedRefMut_serialize(x, m)
      [] x.kind = "OwnedSlice" -> OwnedSlice_serialize(x, m, ub)
      [] x.kind = "OwnedMutSlice" -> OwnedMutSlice_serialize(x, m, ub)
      [] x.kind = "OwnedPtr" -> OwnedPtr_serialize(x, m)
      [] x.kind = "OwnedMutPtr" -> OwnedMutPtr_serialize(x, m)

Deserialize(k, b) ==
    CASE k = "OwnedRef" -> OwnedRef_deserialize(b)
      [] k = "OwnedRefMut" -> OwnedRefMut_deserialize(b)
      [] k = "OwnedSlice" -> OwnedSlice_deserialize(b)
      [] k = "OwnedMutSlice" -> OwnedMutSlice_deserialize(b)
      [] k = "OwnedPtr" -> OwnedPtr_deserialize(b)
      [] k = "OwnedMutPtr" -> OwnedMutPtr_deserialize(b)

\* What the wrapper dereferences to (as_ref / deref / as_slice).
Deref(x, m, ub) ==
    CASE x.kind = "OwnedRef" -> OwnedRef_as_ref(x, m)
      [] x.kind = "OwnedRefMut" -> OwnedRefMut_as_ref(x, m)
      [] x.kind = "OwnedSlice" -> OwnedSlice_deref(x, m, ub)
      [] x.kind = "OwnedMutSlice" -> OwnedMutSlice_deref(x, m, ub)
      [] x.kind = "OwnedPtr" -> OwnedPtr_as_ref(x, m)
      [] x.kind = "OwnedMutPtr" -> OwnedMutPtr_as_ref(x, m)

\* The store through the mutable accessor of the three mutable types.
Store(x, m, i, v) ==
    CASE x.kind = "OwnedRefMut" -> OwnedRefMut_as_mut(x, m, v)
      [] x.kind = "OwnedMutSlice" -> OwnedMutSlice_deref_mut(x, m, i, v)
      [] x.kind = "OwnedMutPtr" -> OwnedMutPtr_as_mut(x, m, v)

\* The outcomes of the undefined behaviour a dereference of x can run into:
\* only a raw slice over the null pointer has any.
UBFor(x) == IF x.tag = "RefRaw" /\ x.ptr = Null THEN UBNull(x.len) ELSE {Fail}

\* The wrapper's pointer, if it has one, is not null.
NonNull(x) == x.tag \in {"RefRaw", "Ptr"} => x.ptr # Null

\* The logical length: the stored length of RefRaw, the slice's or Vec's len().
LogicalLen(x) == IF x.tag = "Owned" THEN Len(x.data) ELSE x.len

(***************************************************************************)
(* Inputs.  A non-null pointer handed to a raw constructor points to as    *)
(* many valid cells as the length says (the constructor's safety           *)
(* contract); the null pointer is what the constructors are asked about.   *)
(***************************************************************************)
PtrIn == Addr \cup {Null}
RawIn == {pl \in PtrIn \X (0..MemSize) : pl[1] # Null => pl[1] + pl[2] - 1 <= MemSize}
RefIn == {pl \in Addr \X (0..MemSize) : pl[1] + pl[2] - 1 <= MemSize}
VecIn == SeqUpTo(Val, MaxLen)
ShmemIn == {None} \cup {Some(p) : p \in PtrIn}

Init ==
    /\ mem \in [Addr -> Val]
    /\ w = NoWrapper
    /\ panicked = FALSE
    /\ op = "init"
    /\ arg = <<>>
    /\ old = NoWrapper
    /\ ret = None
    /\ copied = FALSE
    /\ wire = <<>>
    /\ orig = <<>>
    /\ written = FALSE

\* A constructor call that returned x (or panicked).
Construct(name, a, x) ==
    /\ op = "init"
    /\ op' = name
    /\ orig' = (IF x = Panic THEN <<>> ELSE Deref(x, mem, Ok(<<>>)).s)
    /\ written' = FALSE
    /\ arg' = a
    /\ old' = NoWrapper
    /\ panicked' = (x = Panic)
    /\ w' = IF x = Panic THEN NoWrapper ELSE x
    /\ ret' = None
    /\ copied' = FALSE
    /\ wire' = <<>>
    /\ UNCHANGED mem

NewOwnedRefFromPtr == \E p \in PtrIn : Construct("OwnedRef::from_ptr", <<p>>, OwnedRef_from_ptr(p))
NewOwnedRefFromShmem == \E o \in ShmemIn : Construct("OwnedRef::from_shmem", <<o>>, OwnedRef_from_shmem(o))
NewOwnedRefOwned == \E v \in Val : Construct("OwnedRef::owned", <<v>>, OwnedRef_owned(v))
NewOwnedRefRef == \E p \in Addr : Construct("OwnedRef::Ref", <<p>>, OwnedRef_Ref(p))

NewOwnedRefMutFromMutPtr ==
    \E p \in PtrIn : Construct("OwnedRefMut::from_mut_ptr", <<p>>, OwnedRefMut_from_mut_ptr(p))
NewOwnedRefMutFromShmem ==
    \E o \in ShmemIn : Construct("OwnedRefMut::from_shmem", <<o>>, OwnedRefMut_from_shmem(o))
NewOwnedRefMutOwned == \E v \in Val : Construct("OwnedRefMut::owned", <<v>>, OwnedRefMut_owned(v))
NewOwnedRefMutRef == \E p \in Addr : Construct("OwnedRefMut::Ref", <<p>>, OwnedRefMut_Ref(p))

NewOwnedSliceFromRawParts ==
    \E pl \in RawIn :
        Construct("OwnedSlice::from_raw_parts", pl, OwnedSlice_from_raw_parts(pl[1], pl[2]))
NewOwnedSliceFromVec == \E d \in VecIn : Construct("OwnedSlice::from_vec", <<d>>, OwnedSlice_from_vec(d))
NewOwnedSliceFromSlice ==
    \E pl \in RefIn : Construct("OwnedSlice::from_slice", pl, OwnedSlice_from_slice(pl[1], pl[2]))

NewOwnedMutSliceFromRawPartsMut ==
    \E pl \in RawIn :
        Construct("OwnedMutSlice::from_raw_parts_mut", pl,
                  OwnedMutSlice_from_raw_parts_mut(pl[1], pl[2]))
NewOwnedMutSliceFromVec ==
    \E d \in VecIn : Construct("OwnedMutSlice::from_vec", <<d>>, OwnedMutSlice_from_vec(d))
NewOwnedMutSliceFromMutSlice ==
    \E pl \in RefIn :
        Construct("OwnedMutSlice::from_mut_slice", pl, OwnedMutSlice_from_mut_slice(pl[1], pl[2]))

NewOwnedPtrFromRaw == \E p \in PtrIn : Construct("OwnedPtr::from_raw", <<p>>, OwnedPtr_from_raw(p))
NewOwnedPtrOwned == \E v \in Val : Construct("OwnedPtr::Owned", <<v>>, OwnedPtr_Owned(v))
NewOwnedMutPtrFromRawMut ==
    \E p \in PtrIn : Construct("OwnedMutPtr::from_raw_mut", <<p>>, OwnedMutPtr_from_raw_mut(p))
NewOwnedMutPtrOwned == \E v \in Val : Construct("OwnedMutPtr::Owned", <<v>>, OwnedMutPtr_Owned(v))

\* An operation on the live wrapper.
Live == w # NoWrapper /\ ~panicked

\* truncate(new_len) on a slice wrapper.
Truncate ==
    \E n \in 0..(MemSize + 1) :
        /\ Live
        /\ w.kind \in SliceKinds
        /\ LET r == IF w.kind = "OwnedSlice" THEN OwnedSlice_truncate(w, n)
                    ELSE OwnedMutSlice_truncate(w, n)
           IN /\ panicked' = (r.w = Panic)
              /\ w' = IF r.w = Panic THEN NoWrapper ELSE r.w
              /\ ret' = r.ret
        /\ op' = "truncate"
        /\ UNCHANGED <<orig, written>>
        /\ arg' = <<n>>
        /\ old' = w
        /\ copied' = FALSE
        /\ wire' = <<>>
    /\ UNCHANGED mem

\* is_owned().
IsOwnedCall ==
    /\ Live
    /\ op' = "is_owned"
    /\ UNCHANGED <<orig, written>>
    /\ arg' = <<>>
    /\ old' = w
    /\ ret' = <<IsOwned(w)>>
    /\ copied' = FALSE
    /\ wire' = <<>>
    /\ UNCHANGED <<mem, w, panicked>>

\* OwnedRef::is_raw().
IsRawCall ==
    /\ Live
    /\ w.kind = "OwnedRef"
    /\ op' = "is_raw"
    /\ UNCHANGED <<orig, written>>
    /\ arg' = <<>>
    /\ old' = w
    /\ ret' = <<OwnedRef_is_raw(w)>>
    /\ copied' = FALSE
    /\ wire' = <<>>
    /\ UNCHANGED <<mem, w, panicked>>

\* IntoOwned::into_owned(self).
IntoOwnedCall ==
    \E ub \in UBFor(w) :
        /\ Live
        /\ LET r == IntoOwned(w, mem, ub)
           IN /\ panicked' = (r.w = Panic)
              /\ w' = IF r.w = Panic THEN NoWrapper ELSE r.w
              /\ copied' = r.copied
        /\ op' = "into_owned"
        /\ UNCHANGED <<orig, written>>
        /\ arg' = <<>>
        /\ old' = w
        /\ ret' = None
        /\ wire' = <<>>
    /\ UNCHANGED mem

\* OwnedSlice::from(mut_slice).
Downgrade ==
    /\ Live
    /\ w.kind = "OwnedMutSlice"
    /\ LET r == OwnedSlice_from_mut_slice(w)
       IN /\ w' = r.w
          /\ copied' = r.copied
    /\ op' = "downgrade"
    /\ UNCHANGED <<orig, written>>
    /\ arg' = <<>>
    /\ old' = w
    /\ ret' = None
    /\ wire' = <<>>
    /\ UNCHANGED <<mem, panicked>>

\* serialize(): the bytes go on the wire.
SerializeCall ==
    \E ub \in UBFor(w) :
        /\ Live
        /\ LET r == Serialize(w, mem, ub)
           IN IF r.ok
              THEN /\ wire' = r.s
                   /\ UNCHANGED <<w, panicked>>
              ELSE /\ panicked' = TRUE
                   /\ w' = NoWrapper
                   /\ wire' = <<>>
        /\ op' = "serialize"
        /\ UNCHANGED <<orig, written>>
        /\ arg' = <<>>
        /\ old' = w
        /\ ret' = None
        /\ copied' = FALSE
        /\ UNCHANGED mem

\* deserialize() of the bytes just written, as a wrapper of a type k of the
\* sender's shape (the receiver's wrapper replaces the sender's); an Err
\* leaves no wrapper.
DeserializeCall ==
    \E k \in SameShape(w.kind) :
        /\ Live
        /\ wire # <<>>
        /\ LET x == Deserialize(k, wire)
           IN /\ w' = IF x = DeErr THEN NoWrapper ELSE x
              /\ ret' = <<x # DeErr>>
        /\ op' = "deserialize"
        /\ orig' = (IF w' = NoWrapper THEN <<>> ELSE Deref(w', mem, Fail).s)
        /\ written' = FALSE
        /\ arg' = <<k>>
        /\ old' = w
        /\ copied' = FALSE
        /\ wire' = <<>>
        /\ UNCHANGED <<mem, panicked>>

\* A store through as_mut() / deref_mut() of a mutable wrapper.
StoreCall ==
    \E i \in 1..MemSize, v \in Val :
        /\ Live
        /\ w.kind \in {"OwnedRefMut", "OwnedMutSlice", "OwnedMutPtr"}
        /\ IF w.kind = "OwnedMutSlice" THEN i <= LogicalLen(w) ELSE i = 1
        /\ LET r == Store(w, mem, i, v)
           IN /\ panicked' = (r.w = Panic)
              /\ w' = IF r.w = Panic THEN NoWrapper ELSE r.w
              /\ mem' = r.mem
        /\ op' = "store"
        /\ written' = TRUE
        /\ orig' = <<>>
        /\ arg' = <<i, v>>
        /\ old' = w
        /\ ret' = None
        /\ copied' = FALSE
        /\ wire' = <<>>

\* OwnedRef::into_owned(self), the inherent method (what r.into_owned()
\* resolves to): the wrapper is consumed.
InherentIntoOwnedCall ==
    /\ Live
    /\ w.kind = "OwnedRef"
    /\ op' = "OwnedRef::into_owned"
    /\ UNCHANGED <<orig, written>>
    /\ arg' = <<>>
    /\ old' = w
    /\ ret' = OwnedRef_inherent_into_owned(w)
    /\ w' = NoWrapper
    /\ copied' = FALSE
    /\ wire' = <<>>
    /\ UNCHANGED <<mem, panicked>>

\* iter() on a slice wrapper, run to the end: ret holds the elements yielded.
IterCall ==
    \E ub \in UBFor(w) :
        /\ Live
        /\ w.kind \in SliceKinds
        /\ LET r == IF w.kind = "OwnedSlice" THEN OwnedSlice_iter(w, mem, ub)
                    ELSE OwnedMutSlice_iter(w, mem, ub)
           IN /\ panicked' = ~r.ok
              /\ w' = IF r.ok THEN w ELSE NoWrapper
              /\ ret' = IF r.ok THEN Some(r.s) ELSE None
        /\ op' = "iter"
        /\ UNCHANGED <<orig, written>>
        /\ arg' = <<>>
        /\ old' = w
        /\ copied' = FALSE
        /\ wire' = <<>>
        /\ UNCHANGED mem

\* OwnedSlice::slice(lo..hi): self is only borrowed; ret holds the result.
SliceCall ==
    \E lo \in 0..(MaxLen + 1), hi \in 0..(MaxLen + 1), ub \in UBFor(w) :
        /\ Live
        /\ w.kind = "OwnedSlice"
        /\ LET r == OwnedSlice_slice(w, mem, lo, hi, ub)
           IN /\ panicked' = ~r.ok
              /\ w' = IF r.ok THEN w ELSE NoWrapper
              /\ ret' = IF r.ok THEN Some(r) ELSE None
        /\ op' = "slice"
        /\ UNCHANGED <<orig, written>>
        /\ arg' = <<lo, hi>>
        /\ old' = w
        /\ copied' = FALSE
        /\ wire' = <<>>
        /\ UNCHANGED mem

\* Vec::from(slice): the wrapper is consumed; ret holds the Vec, or the
\* message of the abort.
IntoVecCall ==
    \E ub \in UBFor(w) :
        /\ Live
        /\ w.kind \in SliceKinds
        /\ LET r == IF w.kind = "OwnedSlice" THEN Vec_from_OwnedSlice(w, mem, ub)
                    ELSE Vec_from_OwnedMutSlice(w, mem, ub)
           IN /\ panicked' = ~r.ok
              /\ ret' = IF r.ok THEN Some(r.s) ELSE Some(r.msg)
              /\ copied' = (r.ok /\ w.tag # "Owned")
        /\ w' = NoWrapper
        /\ op' = "into_vec"
        /\ UNCHANGED <<orig, written>>
        /\ arg' = <<>>
        /\ old' = w
        /\ wire' = <<>>
        /\ UNCHANGED mem

Next ==
    \/ NewOwnedRefFromPtr
    \/ NewOwnedRefFromShmem
    \/ NewOwnedRefOwned
    \/ NewOwnedRefRef
    \/ NewOwnedRefMutFromMutPtr
    \/ NewOwnedRefMutFromShmem
    \/ NewOwnedRefMutOwned
    \/ NewOwnedRefMutRef
    \/ NewOwnedSliceFromRawParts
    \/ NewOwnedSliceFromVec
    \/ NewOwnedSliceFromSlice
    \/ NewOwnedMutSliceFromRawPartsMut
    \/ NewOwnedMutSliceFromVec
    \/ NewOwnedMutSliceFromMutSlice
    \/ NewOwnedPtrFromRaw
    \/ NewOwnedPtrOwned
    \/ NewOwnedMutPtrFromRawMut
    \/ NewOwnedMutPtrOwned
    \/ Truncate
    \/ IsOwnedCall
    \/ IsRawCall
    \/ IntoOwnedCall
    \/ Downgrade
    \/ SerializeCall
    \/ DeserializeCall
    \/ StoreCall
    \/ InherentIntoOwnedCall
    \/ IterCall
    \/ SliceCall
    \/ IntoVecCall

Spec == Init /\ [][Next]_vars

(***************************************************************************)
(* Properties.                                                             *)
(***************************************************************************)
\* The elements a completed dereference of x yields (a dereference of a raw
\* slice over the null pointer completes only when it is empty).
Contents(x, m) == Deref(x, m, Ok(<<>>)).s

\* The encoding of the plain owned value (one element) or sequence of x's shape.
PlainEncoding(k, s) == IF k \in SliceKinds THEN ser_seq(s) ELSE ser_value(s)

\* C1: decoding what a wrapper of any kind and variant was encoded to gives
\* a wrapper in the Owned variant, for which is_owned() holds, with the
\* contents the encoded wrapper dereferenced to; encoding a wrapper whose
\* pointer is not null does not abort.
C1_RoundTrip ==
    /\ op = "serialize" /\ NonNull(old) => ~panicked /\ wire # <<>>
    /\ op = "deserialize" =>
          /\ ret = <<TRUE>>
          /\ w.kind = arg[1]
          /\ w.tag = "Owned"
          /\ IsOwned(w)
          /\ Contents(w, mem) = Contents(old, mem)

C1_Witness ==
    /\ op = "deserialize"
    /\ old.kind = "OwnedSlice"
    /\ old.tag = "RefRaw"
    /\ w.kind = "OwnedSlice"
    /\ Len(w.data) = 2
    /\ w.data[1] # w.data[2]

\* C2: truncate(n) on a slice wrapper of logical length L never aborts; with
\* n <= L it returns Some(L) and leaves the logical length n and the first n
\* elements; with n > L it returns None and leaves the wrapper, and so its
\* length and contents, unchanged.
C2_Truncate ==
    op = "truncate" =>
        /\ ~panicked
        /\ w.kind = old.kind
        /\ LET L == LogicalLen(old)
               n == arg[1]
           IN IF n <= L
              THEN /\ ret = Some(L)
                   /\ LogicalLen(w) = n
                   /\ NonNull(old) => Contents(w, mem) = SubSeq(Contents(old, mem), 1, n)
              ELSE /\ ret = None
                   /\ w = old
                   /\ LogicalLen(w) = L
                   /\ NonNull(old) => Contents(w, mem) = Contents(old, mem)

C2_Witness ==
    /\ op = "truncate"
    /\ old.kind = "OwnedMutSlice"
    /\ old.tag = "RefRaw"
    /\ old.len = 2
    /\ arg = <<1>>
    /\ ret = Some(2)
    /\ Contents(w, mem) = <<mem[old.ptr]>>

\* C3: from_raw_parts_mut(ptr, len) returns an Owned wrapper of logical
\* length 0 when ptr is null or len is 0, and otherwise the RefRaw variant
\* holding exactly ptr and len.
C3_FromRawPartsMut ==
    op = "OwnedMutSlice::from_raw_parts_mut" =>
        /\ ~panicked
        /\ IF arg[1] = Null \/ arg[2] = 0
           THEN w.kind = "OwnedMutSlice" /\ w.tag = "Owned" /\ IsOwned(w) /\ LogicalLen(w) = 0
           ELSE w = RefRaw("OwnedMutSlice", arg[1], arg[2])

C3_Witness ==
    /\ op = "OwnedMutSlice::from_raw_parts_mut"
    /\ arg[1] = Null
    /\ arg[2] > 0
    /\ w.tag = "Owned"

\* C4 as stated: OwnedSlice::from_raw_parts(null, len) aborts at the
\* construction call, and no OwnedSlice holds a null pointer.
C4_NullAborts ==
    /\ op = "OwnedSlice::from_raw_parts" /\ arg[1] = Null => panicked
    /\ w.kind = "OwnedSlice" /\ w.tag = "RefRaw" => w.ptr # Null

\* C4 as amended: OwnedSlice::from_raw_parts(ptr, len) checks nothing; it
\* never aborts and returns the RefRaw variant holding exactly ptr and len,
\* the null pointer included.
C4_FromRawParts ==
    op = "OwnedSlice::from_raw_parts" =>
        /\ ~panicked
        /\ w = RefRaw("OwnedSlice", arg[1], arg[2])

C4_Witness ==
    /\ op = "OwnedSlice::from_raw_parts"
    /\ arg[1] = Null
    /\ w.tag = "RefRaw"
    /\ w.ptr = Null

\* C5: for a wrapper of any kind, in every reachable state, is_owned() is
\* true exactly when the active variant is Owned, and that is what a call
\* returns.
C5_IsOwned ==
    /\ w # NoWrapper => (IsOwned(w) <=> w.tag = "Owned")
    /\ op = "is_owned" => ret = <<old.tag = "Owned">>

C5_Witness ==
    /\ op = "is_owned"
    /\ old.kind = "OwnedMutPtr"
    /\ old.tag = "Ptr"
    /\ ret = <<FALSE>>

\* C6: into_owned on a wrapper whose pointer is not null does not abort; the
\* wrapper it returns is Owned, of the same kind, with the contents of the
\* original; a second into_owned returns that wrapper again without a copy;
\* an Owned wrapper is returned unchanged and nothing is copied.
C6_IntoOwned ==
    op = "into_owned" =>
        /\ NonNull(old) => ~panicked
        /\ ~panicked =>
              /\ w.kind = old.kind
              /\ w.tag = "Owned"
              /\ Contents(w, mem) = Contents(old, mem)
              /\ IntoOwned(w, mem, Fail) = R(w, FALSE)
              /\ old.tag = "Owned" => w = old /\ ~copied

C6_Witness ==
    /\ op = "into_owned"
    /\ old.kind = "OwnedSlice"
    /\ old.tag = "Ref"
    /\ old.len = 2
    /\ copied
    /\ w.tag = "Owned"

\* C7: OwnedSlice::from(OwnedMutSlice) keeps the variant, the pointer, the
\* length, the owned buffer and the contents, and copies nothing.
C7_Downgrade ==
    op = "downgrade" =>
        /\ ~panicked
        /\ old.kind = "OwnedMutSlice"
        /\ w.kind = "OwnedSlice"
        /\ w.tag = old.tag
        /\ w.ptr = old.ptr
        /\ w.len = old.len
        /\ w.data = old.data
        /\ ~copied
        /\ Contents(w, mem) = Contents(old, mem)

C7_Witness ==
    /\ op = "downgrade"
    /\ old.tag = "Ref"
    /\ old.len = 2
    /\ w.tag = "Ref"

C9_FromPtr ==
    /\ op \in {"OwnedRef::from_ptr", "OwnedRefMut::from_mut_ptr"} =>
          IF arg[1] = Null
          THEN panicked /\ w = NoWrapper
          ELSE /\ ~panicked
               /\ w = RefRaw(IF op = "OwnedRef::from_ptr" THEN "OwnedRef" ELSE "OwnedRefMut",
                             arg[1], 1)
    /\ w.kind \in SingleKinds /\ w.tag = "RefRaw" => w.ptr # Null

C9_Witness ==
    /\ op = "OwnedRefMut::from_mut_ptr"
    /\ arg = <<Null>>
    /\ panicked

\* C10: OwnedRef::is_raw() returns true for the RefRaw variant and false for
\* the Ref and Owned variants.
C10_IsRaw == op = "is_raw" => ret = <<old.tag = "RefRaw">>


\* C11 as stated: into_owned() on an OwnedRef, by the inherent method as by
\* the IntoOwned implementation, gives the Owned wrapper of the dereferenced
\* value and never an absent result.
C11_AlwaysOwned ==
    /\ op = "into_owned" /\ old.kind = "OwnedRef" =>
          ~panicked /\ w = Owned("OwnedRef", Contents(old, mem))
    /\ op = "OwnedRef::into_owned" => ret = Some(Contents(old, mem))

\* C11 as amended: IntoOwned::into_owned on an OwnedRef returns an OwnedRef
\* in the Owned variant, cloning the dereferenced value of a RefRaw or Ref
\* and moving an Owned one unchanged; the inherent OwnedRef::into_owned
\* returns Some(box) for the Owned variant and None for RefRaw and Ref.
C11_IntoOwned ==
    /\ op = "into_owned" /\ old.kind = "OwnedRef" =>
          /\ ~panicked
          /\ w = Owned("OwnedRef", Contents(old, mem))
          /\ copied <=> old.tag # "Owned"
          /\ old.tag = "Owned" => w = old
    /\ op = "OwnedRef::into_owned" =>
          /\ ~panicked
          /\ ret = IF old.tag = "Owned" THEN Some(old.data) ELSE None

C11_Witness ==
    /\ op = "OwnedRef::into_owned"
    /\ old.tag = "RefRaw"
    /\ ret = None

(***************************************************************************)
(* C12.  Truncation only shrinks.                                          *)
(***************************************************************************)
IsPrefix(s, t) == Len(s) <= Len(t) /\ \A i \in 1..Len(s) : s[i] = t[i]

\* The operations on one slice wrapper the claim ranges over.
SliceOps == {"truncate", "into_owned", "downgrade", "iter"}

\* C12: over any sequence of truncate (with any argument), into_owned,
\* downgrade and iteration on one slice wrapper, no step increases the
\* logical length, and as long as nothing was stored through the wrapper its
\* contents are a prefix of the contents it was constructed with; iteration
\* yields exactly the logical contents and leaves the wrapper as it was.
C12_OnlyShrinks ==
    /\ (op \in SliceOps /\ old.kind \in SliceKinds /\ w # NoWrapper) =>
          /\ w.kind \in SliceKinds
          /\ LogicalLen(w) <= LogicalLen(old)
    /\ (w.kind \in SliceKinds /\ ~written) =>
          /\ IsPrefix(Contents(w, mem), orig)
          /\ NonNull(w) => LogicalLen(w) = Len(Contents(w, mem))
    /\ (op = "iter" /\ ~panicked) => w = old /\ ret = Some(Contents(w, mem))
    /\ (op = "iter" /\ NonNull(old)) => ~panicked

\* A borrowed slice wrapper over two cells, truncated to one element and then
\* made owned: one element is left of the two.
C12_Witness ==
    /\ op = "into_owned"
    /\ old.kind = "OwnedSlice"
    /\ old.tag = "Ref"
    /\ w.tag = "Owned"
    /\ Len(orig) = 2
    /\ LogicalLen(w) = 1
    /\ ~written

(***************************************************************************)
(* C13.  The frame of truncate.                                            *)
(***************************************************************************)
\* C13: a truncate step on a slice wrapper changes the logical length and
\* nothing else: the type and the variant, hence is_owned(), stay, the pointer
\* of a RefRaw (and of a Ref) stays, an owned buffer keeps a prefix of its
\* elements, and no cell of the backing memory changes.  truncate(0) on a
\* RefRaw mutable slice leaves RefRaw with the same pointer and length 0.
C13_TruncateFrame ==
    [][op' = "truncate" =>
          /\ mem' = mem
          /\ ~panicked'
          /\ w'.kind = w.kind
          /\ w'.tag = w.tag
          /\ IsOwned(w') = IsOwned(w)
          /\ w'.ptr = w.ptr
          /\ IsPrefix(w'.data, w.data)
          /\ LogicalLen(w') = IF arg'[1] <= LogicalLen(w) THEN arg'[1] ELSE LogicalLen(w)
          /\ (w.kind = "OwnedMutSlice" /\ w.tag = "RefRaw" /\ arg' = <<0>>) =>
                w' = [w EXCEPT !.len = 0]
    ]_vars

\* truncate(0) on a RefRaw mutable slice of two elements.
C13_Witness ==
    /\ op = "truncate"
    /\ arg = <<0>>
    /\ old.kind = "OwnedMutSlice"
    /\ old.tag = "RefRaw"
    /\ old.len = 2
    /\ w = [old EXCEPT !.len = 0]

(***************************************************************************)
(* C14.  slice(range).                                                     *)
(***************************************************************************)
\* The contents of the wrapper r that slice() returned for self = x.
SubContents(r, x, m) ==
    OwnedSlice_deref(r.sub, IF r.base = "vec" THEN x.data ELSE m, Fail).s

\* C14: slice(lo..hi) with lo <= hi <= the logical length of an OwnedSlice
\* that is RefRaw over a non-null pointer, Ref or Owned does not abort; and
\* whenever slice() returns, self is as it was and the result is an
\* OwnedSlice in the Ref variant, so not owned, whose contents are the
\* elements lo+1 .. hi of self.
C14_Slice ==
    op = "slice" =>
        /\ (NonNull(old) /\ arg[1] <= arg[2] /\ arg[2] <= LogicalLen(old)) => ~panicked
        /\ ~panicked =>
              /\ w = old
              /\ ret[1].sub.kind = "OwnedSlice"
              /\ ret[1].sub.tag = "Ref"
              /\ ~IsOwned(ret[1].sub)
              /\ SubContents(ret[1], old, mem) = SubSeq(Contents(old, mem), arg[1] + 1, arg[2])

\* The second of the two elements of an owned slice, and of a raw one.
C14_Witness ==
    /\ op = "slice"
    /\ ~panicked
    /\ arg = <<1, 2>>
    /\ old.tag \in {"Owned", "RefRaw"}
    /\ LogicalLen(old) = 2
    /\ ret[1].sub.tag = "Ref"
    /\ Contents(old, mem) = <<0, 1>>

(***************************************************************************)
(* C15.  Conversion to Vec.                                                *)
(***************************************************************************)
\* C15: Vec::from of an OwnedSlice or OwnedMutSlice in any variant does not
\* abort when the wrapper's pointer is not null, and whenever it returns the
\* Vec holds the wrapper's logical contents; the forced into_owned leaves
\* the Owned variant whenever it returns, and so the conversion never aborts
\* with "Could not own slice!".
C15_IntoVec ==
    (op = "into_vec" /\ old.kind \in SliceKinds) =>
        /\ NonNull(old) => ~panicked
        /\ ~panicked => ret = Some(Contents(old, mem))
        /\ panicked => ret = Some(InvalidPointer) /\ ret # Some(CouldNotOwn)
        /\ \A ub \in UBFor(old) :
              LET slice == IntoOwned(old, mem, ub).w
              IN slice = Panic \/ (slice.tag = "Owned" /\ IsOwned(slice))

\* A borrowed mutable slice of two elements converted to a Vec.
C15_Witness ==
    /\ op = "into_vec"
    /\ ~panicked
    /\ old.kind = "OwnedMutSlice"
    /\ old.tag = "Ref"
    /\ ret = Some(<<0, 1>>)

====
